---- MODULE Spec2Model ----
(***************************************************************************)
(* A model of the two programs of FastPMRunner:                            *)
(*   - SimulationICs (src/FastPMRunner/simulationic.py): construction with *)
(*     range checks, make_pklin, make_simulation (parameter file, external *)
(*     process, message.out, SimulationICs.json, power-spectrum parse);    *)
(*   - bao_fs_ngc_z1_marg (src/bao_fs_ngc_z1_marg/__init__.py): the three  *)
(*     table loaders of __init__ and the array shapes of loglkl.           *)
(* Strings are sequences of one-character strings, so that formatting,     *)
(* splitting and path joining are computed and not assumed.  Real numbers  *)
(* are fractions <<numerator, denominator>> with a positive denominator.   *)
(***************************************************************************)
EXTENDS Integers, Sequences, FiniteSets, TLC

VARIABLES
    pc,        \* position of the caller / of the running make_simulation
    obj,       \* the SimulationICs instance's __dict__ (empty: no instance)
    dirs,      \* directories that exist
    files,     \* regular files: path -> content
    tables,    \* power-spectrum tables on disk: scale-factor index -> run
    args,      \* arguments of the last constructor call
    outcome,   \* how the last constructor or make_simulation call ended
    exc,       \* the exception that call raised ("" when none)
    events,    \* what the current (or last) make_simulation call has done
    pre,       \* files and __dict__ as they were when that call started
    argv,      \* argument list handed to subprocess.run in that call
    launches,  \* processes launched in that call
    status,    \* exit status of that call's process (-1: none yet)
    nCalls,    \* method calls made on the instance so far
    pklinPath, \* history: path set by the most recent make_pklin
    simGen,    \* history: times make_simulation generated the linear file
    pklinDone, \* history: make_pklin calls performed (direct or internal)
    \* bao_fs_ngc_z1_marg
    lpc,       \* position in __init__ / of the caller of the likelihood
    stage,     \* the table whose file fh is: "none", "cov", "meas", "win"
    ksize,     \* self.ksize, set by Likelihood_prior.__init__
    fh,        \* lines of the open data file
    fpos,      \* lines of it already read
    reads,     \* readline calls made on it
    line,      \* the local variable line
    row,       \* the loop variable i
    cov,       \* self.cov
    meas,      \* self.k, self.Pk0, self.Pk2 (as columns of one table)
    win,       \* self.W0, self.W2, self.W4 (as columns of one table)
    lexc,      \* the exception __init__ raised ("" when none)
    lkl,       \* how the last loglkl call ended
    lklCalls   \* loglkl calls made

simVars == <<pc, obj, dirs, files, tables, args, outcome, exc, events, pre,
             argv, launches, status, nCalls, pklinPath, simGen, pklinDone>>
likVars == <<lpc, stage, ksize, fh, fpos, reads, line, row, cov, meas, win,
             lexc, lkl, lklCalls>>
vars == <<simVars, likVars>>

(***************************************************************************)
(* Bounds of the model.                                                    *)
(***************************************************************************)
MaxCalls == 3    \* method calls on one instance
MaxBad == 2      \* constructor arguments that are out of range at once

(***************************************************************************)
(* Strings.                                                                *)
(***************************************************************************)
Digit == <<"0", "1", "2", "3", "4", "5", "6", "7", "8", "9">>

RECURSIVE NatToStr(_)
NatToStr(n) == IF n < 10 THEN <<Digit[n + 1]>>
               ELSE NatToStr(n \div 10) \o <<Digit[(n % 10) + 1]>>

\* "{}".format(n) for an int
IntToStr(n) == IF n < 0 THEN <<"-">> \o NatToStr(-n) ELSE NatToStr(n)

\* str.split() with no argument: maximal runs of non-whitespace characters
RECURSIVE SplitFrom(_, _, _)
SplitFrom(s, cur, acc) ==
    IF s = <<>> THEN (IF cur = <<>> THEN acc ELSE Append(acc, cur))
    ELSE IF Head(s) = " "
         THEN SplitFrom(Tail(s), <<>>, IF cur = <<>> THEN acc ELSE Append(acc, cur))
         ELSE SplitFrom(Tail(s), Append(cur, Head(s)), acc)

Split(s) == SplitFrom(s, <<>>, <<>>)

\* os.path.join(a, b)
PathJoin(a, b) ==
    IF b # <<>> /\ Head(b) = "/" THEN b
    ELSE IF a = <<>> \/ a[Len(a)] = "/" THEN a \o b
    ELSE a \o <<"/">> \o b

\* os.path.dirname(p)
RECURSIVE Dirname(_)
Dirname(p) == IF p = <<>> THEN <<>>
              ELSE IF p[Len(p)] = "/"
                   THEN (IF Len(p) = 1 THEN p ELSE SubSeq(p, 1, Len(p) - 1))
                   ELSE Dirname(SubSeq(p, 1, Len(p) - 1))

\* the directory an entry is created in exists ("" is the working directory)
ParentExists(p, ds) == Dirname(p) = <<>> \/ Dirname(p) \in ds

(***************************************************************************)
(* Fractions.                                                              *)
(***************************************************************************)
Lt(a, b) == a[1] * b[2] < b[1] * a[2]
Le(a, b) == a[1] * b[2] <= b[1] * a[2]
Gt(a, b) == Lt(b, a)
Ge(a, b) == Le(b, a)
Zero == <<0, 1>>
One == <<1, 1>>
\* 1 / (1 + z)
ScaleFactor(z) == <<z[2], z[2] + z[1]>>

(***************************************************************************)
(* SimulationICs.__init__ : the nine range checks, in the source's order.  *)
(***************************************************************************)
BoxMax == 20000
NpartMin == 1
NpartMax == 16000
RedshiftMin == 1
RedshiftMax == 1100
RedendMax == 1100
NsMax == 2
ScalarAmpMax == <<1, 10000000>>    \* 1e-7

BoxOk(box) == box < BoxMax
NpartOk(npart) == npart > NpartMin /\ npart < NpartMax
\* a plausible slip: the upper limit of omega0 taken as exclusive
Omega0OkStrict(omega0) == Lt(omega0, One) /\ Gt(omega0, Zero)
Omega0Ok(omega0) == Le(omega0, One) /\ Gt(omega0, Zero)
OmegabOk(omegab) == Gt(omegab, Zero) /\ Lt(omegab, One)
RedshiftOk(redshift) == Gt(redshift, <<RedshiftMin, 1>>) /\ Lt(redshift, <<RedshiftMax, 1>>)
RedendOk(redend) == Ge(redend, Zero) /\ Lt(redend, <<RedendMax, 1>>)
HubbleOk(hubble) == Lt(hubble, One) /\ Gt(hubble, Zero)
ScalarAmpOk(scalar_amp) == Lt(scalar_amp, ScalarAmpMax) /\ Gt(scalar_amp, Zero)
NsOk(ns) == Gt(ns, Zero) /\ Lt(ns, <<NsMax, 1>>)

\* the asserts of __init__, as the list of those that fail for arguments a
FailedChecks(a) ==
    {c \in {"box", "npart", "omega0", "omegab", "redshift", "redend",
            "hubble", "scalar_amp", "ns"} :
        \/ c = "box" /\ ~BoxOk(a.box)
        \/ c = "npart" /\ ~NpartOk(a.npart)
        \/ c = "omega0" /\ ~Omega0Ok(a.omega0)
        \/ c = "omegab" /\ ~OmegabOk(a.omegab)
        \/ c = "redshift" /\ ~RedshiftOk(a.redshift)
        \/ c = "redend" /\ ~RedendOk(a.redend)
        \/ c = "hubble" /\ ~HubbleOk(a.hubble)
        \/ c = "scalar_amp" /\ ~ScalarAmpOk(a.scalar_amp)
        \/ c = "ns" /\ ~NsOk(a.ns)}

NoObj == <<>>

\* the attributes __init__ has set when it reaches its end
InitDict(a) ==
    [outdir |-> a.outdir, param_file |-> a.param_file, box |-> a.box,
     npart |-> a.npart, omega0 |-> a.omega0, omegab |-> a.omegab,
     redshift |-> a.redshift, redend |-> a.redend,
     time_start |-> ScaleFactor(a.redshift), time_end |-> ScaleFactor(a.redend),
     timesteps |-> a.timesteps, hubble |-> a.hubble,
     scalar_amp |-> a.scalar_amp, ns |-> a.ns, seed |-> a.seed,
     fastpm_bin |-> a.fastpm_bin, cores |-> a.cores]

\* os.path.exists(p)
PathExists(p, ds, fs) == p \in ds \/ p \in DOMAIN fs

\* lines 107-108: if not os.path.exists(outdir): os.mkdir(outdir)
MakeOutdir(a, ds, fs) ==
    IF PathExists(a.outdir, ds, fs) THEN [exc |-> "", dirs |-> ds]
    ELSE IF ParentExists(a.outdir, ds) /\ a.outdir # <<>>
         THEN [exc |-> "", dirs |-> ds \cup {a.outdir}]
         ELSE [exc |-> "FileNotFoundError", dirs |-> ds]

\* a plausible slip: the directory is made before the arguments are checked
CtorMkdirFirst(a, ds, fs) ==
    LET m == MakeOutdir(a, ds, fs) IN
    IF m.exc # "" THEN [exc |-> m.exc, obj |-> NoObj, dirs |-> m.dirs]
    ELSE IF FailedChecks(a) # {}
         THEN [exc |-> "AssertionError", obj |-> NoObj, dirs |-> m.dirs]
         ELSE [exc |-> "", obj |-> InitDict(a), dirs |-> m.dirs]

\* SimulationICs.__init__ as a whole: what it raises, the instance, the directories
Ctor(a, ds, fs) ==
    IF FailedChecks(a) # {}
    THEN [exc |-> "AssertionError", obj |-> NoObj, dirs |-> ds]
    ELSE LET m == MakeOutdir(a, ds, fs) IN
         IF m.exc # "" THEN [exc |-> m.exc, obj |-> NoObj, dirs |-> m.dirs]
         ELSE [exc |-> "", obj |-> InitDict(a), dirs |-> m.dirs]

(***************************************************************************)
(* Arguments the constructor is called with.  Each checked parameter takes *)
(* values inside its range, on its limits and outside, at most MaxBad of   *)
(* them out of range in one call, with the other arguments at their usual  *)
(* values; and the unchecked arguments vary with the checked ones in range.*)
(***************************************************************************)
OutdirChoices == {<<"o", "u", "t">>, <<"m", "y", " ", "o">>, <<"a", "/", "o">>}
ParamFileChoices == {<<"p", ".", "l", "u", "a">>, <<"s", "/", "p">>}
FastpmBinChoices == {<<"f", "a", "s", "t", "p", "m">>, <<"m", "y", " ", "f">>}
UncheckedChoices == [cores : {4, 12}, seed : {-1, 100}, timesteps : {-1, 2}]

NumericArgs ==
    [box : {384, 20000}, npart : {1, 128, 16000},
     omega0 : {Zero, <<288, 1000>>, One, <<2, 1>>},
     omegab : {Zero, <<472, 10000>>, One},
     redshift : {One, <<99, 1>>, <<1100, 1>>},
     redend : {<<-1, 1>>, Zero, <<1100, 1>>},
     hubble : {Zero, <<7, 10>>, One},
     scalar_amp : {Zero, <<1, 400000000>>, <<1, 10000000>>},
     ns : {Zero, <<97, 100>>, <<2, 1>>}]

NumericChoices == {n \in NumericArgs : Cardinality(FailedChecks(n)) <= MaxBad}

UsualNumeric ==
    [box |-> 384, npart |-> 128, omega0 |-> <<288, 1000>>,
     omegab |-> <<472, 10000>>, redshift |-> <<99, 1>>, redend |-> Zero,
     hubble |-> <<7, 10>>, scalar_amp |-> <<1, 400000000>>, ns |-> <<97, 100>>]

OtherArgs ==
    [outdir : OutdirChoices, param_file : ParamFileChoices,
     fastpm_bin : FastpmBinChoices, unchecked : UncheckedChoices]

UsualOther ==
    [outdir |-> <<"o", "u", "t">>, param_file |-> <<"p", ".", "l", "u", "a">>,
     fastpm_bin |-> <<"f", "a", "s", "t", "p", "m">>,
     unchecked |-> [cores |-> 4, seed |-> 100, timesteps |-> 2]]

\* the keyword arguments of one constructor call
MakeArgs(n, o) ==
    [outdir |-> o.outdir, param_file |-> o.param_file, box |-> n.box,
     npart |-> n.npart, seed |-> o.unchecked.seed, redshift |-> n.redshift,
     redend |-> n.redend, omega0 |-> n.omega0, omegab |-> n.omegab,
     hubble |-> n.hubble, scalar_amp |-> n.scalar_amp, ns |-> n.ns,
     fastpm_bin |-> o.fastpm_bin, timesteps |-> o.unchecked.timesteps,
     cores |-> o.unchecked.cores]

CtorInputs ==
    {MakeArgs(UsualNumeric, o) : o \in OtherArgs}
    \cup {MakeArgs(n, UsualOther) : n \in NumericChoices}

NoArgs == <<>>
InitDirChoices == {{}, {<<"o", "u", "t">>}}

(***************************************************************************)
(* File contents.  A file holds [kind, complete, data]; data is what was   *)
(* written (a dictionary), complete is FALSE when the writer raised midway.*)
(***************************************************************************)
SetAttr(o, k, v) == (k :> v) @@ o
WriteFile(fs, path, content) == (path :> content) @@ fs

LinearDefault == <<"m", "y", "_", "p", "k", "_", "l", "i", "n", "e", "a", "r", ".", "t", "x", "t">>
OutfileChoices == {LinearDefault, <<"k", ".", "t", "x", "t">>}
PowerspecName == <<"p", "o", "w", "e", "r", "s", "p", "e", "c">>
MessageName == <<"m", "e", "s", "s", "a", "g", "e", ".", "o", "u", "t">>
JsonName == <<"S", "i", "m", "u", "l", "a", "t", "i", "o", "n", "I", "C", "s", ".", "j", "s", "o", "n">>

\* make_pklin.save_powerspec: writes the linear power spectrum to outfile
SavePowerspec(fs, kw) ==
    WriteFile(fs, kw.outfile, [kind |-> "pklin", complete |-> TRUE, data |-> kw])

\* lua_template.simple_lua_string: the text of the parameter file
SimpleLuaString(kw) == kw

\* make_pklin (lines 113-127): sets linear_file, then writes the file
MakePklinBody(o, fs, outfile) ==
    LET o1 == SetAttr(o, "linear_file", PathJoin(o.outdir, outfile)) IN
    [obj |-> o1,
     files |-> SavePowerspec(fs,
        [omega0 |-> o1.omega0, omegab |-> o1.omegab, hubble |-> o1.hubble,
         scalar_amp |-> o1.scalar_amp, ns |-> o1.ns, outfile |-> o1.linear_file])]

(***************************************************************************)
(* make_simulation, statement by statement.                                *)
(***************************************************************************)
ArrayAttrs == {"_scale_factors", "_powerspecs", "_kk"}

\* json can encode the value: a numpy array, or a list holding one, it cannot
JsonEncodable(k, v) == k \notin ArrayAttrs \/ (v.kind = "list" /\ v.val = <<>>)
JsonSerializable(o) == \A k \in DOMAIN o : JsonEncodable(k, o[k])

\* the items json.dump has written when it meets a value it cannot encode:
\* the array attributes are the last ones inserted into __dict__
JsonWrittenPart(o) == [k \in DOMAIN o \ ArrayAttrs |-> o[k]]

\* lines 166-170: "mpirun -n {cores} {fastpm_bin} {param_file}".format(...)
BashCommand(o) ==
    <<"m", "p", "i", "r", "u", "n", " ", "-", "n", " ">> \o IntToStr(o.cores)
    \o <<" ">> \o o.fastpm_bin \o <<" ">> \o PathJoin(o.outdir, o.param_file)

\* a plausible slip: the default file name instead of the stored attribute
LuaArgsDefaultPklin(o) ==
    [box |-> o.box, npart |-> o.npart, seed |-> o.seed, omega0 |-> o.omega0,
     omegab |-> o.omegab, hubble |-> o.hubble, scalar_amp |-> o.scalar_amp,
     ns |-> o.ns, time_start |-> o.time_start, time_end |-> o.time_end,
     timesteps |-> o.timesteps,
     read_powerspectrum |-> PathJoin(o.outdir,
        <<"m", "y", "_", "p", "k", "_", "l", "i", "n", "e", "a", "r", ".", "t", "x", "t">>),
     write_powerspectrum |-> o.write_powerspectrum,
     write_runpb_snapshot |-> FALSE, write_snapshot |-> FALSE, write_fof |-> FALSE]

\* lines 143-160: the keyword arguments handed to simple_lua_string
LuaArgs(o) ==
    [box |-> o.box, npart |-> o.npart, seed |-> o.seed, omega0 |-> o.omega0,
     omegab |-> o.omegab, hubble |-> o.hubble, scalar_amp |-> o.scalar_amp,
     ns |-> o.ns, time_start |-> o.time_start, time_end |-> o.time_end,
     timesteps |-> o.timesteps, read_powerspectrum |-> o.linear_file,
     write_powerspectrum |-> o.write_powerspectrum,
     write_runpb_snapshot |-> FALSE, write_snapshot |-> FALSE, write_fof |-> FALSE]

Raise(e) ==
    /\ pc' = "idle"
    /\ outcome' = "raised"
    /\ exc' = e

\* the constructor call
Construct(a) ==
    /\ pc = "new"
    /\ LET r == Ctor(a, dirs, files) IN
        /\ args' = a
        /\ obj' = r.obj
        /\ dirs' = r.dirs
        /\ exc' = r.exc
        /\ pc' = IF r.exc = "" THEN "idle" ELSE "ctor_raised"
        /\ outcome' = IF r.exc = "" THEN "returned" ELSE "raised"
    /\ UNCHANGED <<files, tables, events, pre, argv, launches, status, nCalls,
                   pklinPath, simGen, pklinDone, likVars>>

\* a direct call of make_pklin(outfile)
MakePklin(outfile) ==
    /\ pc = "idle"
    /\ nCalls < MaxCalls
    /\ LET r == MakePklinBody(obj, files, outfile) IN
        /\ obj' = r.obj
        /\ files' = r.files
        /\ pklinPath' = PathJoin(obj.outdir, outfile)
    /\ nCalls' = nCalls + 1
    /\ pklinDone' = pklinDone + 1
    /\ UNCHANGED <<pc, dirs, tables, args, outcome, exc, events, pre, argv,
                   launches, status, simGen, likVars>>

\* make_simulation is entered (write_runpb_snapshot, write_snapshot and
\* write_fof keep their defaults)
MS_Begin ==
    /\ pc = "idle"
    /\ nCalls < MaxCalls
    /\ pc' = "ms_pklin"
    /\ nCalls' = nCalls + 1
    /\ events' = <<>>
    /\ pre' = [files |-> files, obj |-> obj, tables |-> tables]
    /\ argv' = <<>>
    /\ launches' = 0
    /\ status' = -1
    /\ outcome' = "none"
    /\ exc' = ""
    /\ UNCHANGED <<obj, dirs, files, tables, args, pklinPath, simGen, pklinDone, likVars>>

\* lines 138-139
MS_Pklin ==
    /\ pc = "ms_pklin"
    /\ IF "linear_file" \notin DOMAIN obj
       THEN LET r == MakePklinBody(obj, files, LinearDefault) IN
            /\ obj' = r.obj
            /\ files' = r.files
            /\ pklinPath' = PathJoin(obj.outdir, LinearDefault)
            /\ simGen' = simGen + 1
            /\ pklinDone' = pklinDone + 1
            /\ events' = Append(events, "pklin")
       ELSE UNCHANGED <<obj, files, pklinPath, simGen, pklinDone, events>>
    /\ pc' = "ms_param"
    /\ UNCHANGED <<dirs, tables, args, outcome, exc, pre, argv, launches, status,
                   nCalls, likVars>>

\* lines 141-163
MS_WriteParam ==
    /\ pc = "ms_param"
    /\ LET o1 == SetAttr(obj, "write_powerspectrum", PathJoin(obj.outdir, PowerspecName))
           path == PathJoin(o1.outdir, o1.param_file)
       IN
        /\ obj' = o1
        /\ IF ParentExists(path, dirs)
           THEN /\ files' = WriteFile(files, path,
                     [kind |-> "lua", complete |-> TRUE, data |-> SimpleLuaString(LuaArgs(o1))])
                /\ events' = Append(events, "param_written")
                /\ pc' = "ms_launch"
                /\ UNCHANGED <<outcome, exc>>
           ELSE /\ Raise("FileNotFoundError")
                /\ UNCHANGED <<files, events>>
    /\ UNCHANGED <<dirs, tables, args, pre, argv, launches, status, nCalls,
                   pklinPath, simGen, pklinDone, likVars>>

\* a plausible slip: the process is started and not waited for
MS_LaunchNoWait ==
    /\ pc = "ms_launch"
    /\ argv' = Split(BashCommand(obj))
    /\ launches' = launches + 1
    /\ events' = Append(events, "launched")
    /\ pc' = "ms_message"
    /\ UNCHANGED <<obj, dirs, files, tables, args, outcome, exc, pre, status,
                   nCalls, pklinPath, simGen, pklinDone, likVars>>

\* lines 166-176: subprocess.run starts the process
MS_Launch ==
    /\ pc = "ms_launch"
    /\ argv' = Split(BashCommand(obj))
    /\ launches' = launches + 1
    /\ events' = Append(events, "launched")
    /\ pc' = "ms_running"
    /\ UNCHANGED <<obj, dirs, files, tables, args, outcome, exc, pre, status,
                   nCalls, pklinPath, simGen, pklinDone, likVars>>

\* the tables the process leaves on disk: all of this run's, or none new
TablesAfter(t, o, wrote, run) ==
    IF wrote /\ o.timesteps > 0
    THEN [i \in 1..o.timesteps |-> run]
    ELSE t

\* a plausible slip: subprocess.run without check=True
RunNoCheck(st) == ""
\* line 176, check=True: what subprocess.run raises for exit status st
RunCheck(st) == IF st # 0 THEN "CalledProcessError" ELSE ""

\* a plausible slip: the output is written before the exit status is checked
MS_ProcessExitLogFirst(st, wrote) ==
    /\ pc = "ms_running"
    /\ status' = st
    /\ tables' = TablesAfter(tables, obj, wrote, nCalls)
    /\ events' = Append(events, "exited")
    /\ files' = WriteFile(files,
                    PathJoin(obj.outdir, <<"m", "e", "s", "s", "a", "g", "e", ".", "o", "u", "t">>),
                    [kind |-> "stdout", complete |-> TRUE, data |-> [run |-> nCalls]])
    /\ IF st # 0
       THEN Raise("CalledProcessError")
       ELSE /\ pc' = "ms_message"
            /\ UNCHANGED <<outcome, exc>>
    /\ UNCHANGED <<obj, dirs, args, pre, argv, launches, nCalls,
                   pklinPath, simGen, pklinDone, likVars>>

\* line 176: the process exits with status st and subprocess.run comes back
MS_ProcessExit(st, wrote) ==
    /\ pc = "ms_running"
    /\ status' = st
    /\ tables' = TablesAfter(tables, obj, wrote, nCalls)
    /\ events' = Append(events, "exited")
    /\ IF RunCheck(st) # ""
       THEN Raise(RunCheck(st))
       ELSE /\ pc' = "ms_message"
            /\ UNCHANGED <<outcome, exc>>
    /\ UNCHANGED <<obj, dirs, files, args, pre, argv, launches, nCalls,
                   pklinPath, simGen, pklinDone, likVars>>

\* lines 177-180
MS_WriteMessage ==
    /\ pc = "ms_message"
    /\ files' = WriteFile(files, PathJoin(obj.outdir, MessageName),
                    [kind |-> "stdout", complete |-> TRUE, data |-> [run |-> nCalls]])
    /\ events' = Append(events, "message_written")
    /\ pc' = "ms_json"
    /\ UNCHANGED <<obj, dirs, tables, args, outcome, exc, pre, argv, launches,
                   status, nCalls, pklinPath, simGen, pklinDone, likVars>>

\* to_json (lines 220-222): open(..., 'w') truncates, json.dump writes item by item
ToJson(o, fs) ==
    IF JsonSerializable(o)
    THEN [exc |-> "",
          files |-> WriteFile(fs, PathJoin(o.outdir, JsonName),
                       [kind |-> "json", complete |-> TRUE, data |-> o])]
    ELSE [exc |-> "TypeError",
          files |-> WriteFile(fs, PathJoin(o.outdir, JsonName),
                       [kind |-> "json", complete |-> FALSE, data |-> JsonWrittenPart(o)])]

\* line 183
MS_ToJson ==
    /\ pc = "ms_json"
    /\ LET r == ToJson(obj, files) IN
        /\ files' = r.files
        /\ IF r.exc = ""
           THEN /\ events' = Append(events, "json_saved")
                /\ pc' = "ms_powerspec"
                /\ UNCHANGED <<outcome, exc>>
           ELSE /\ Raise(r.exc)
                /\ UNCHANGED events
    /\ UNCHANGED <<obj, dirs, tables, args, pre, argv, launches, status, nCalls,
                   pklinPath, simGen, pklinDone, likVars>>

\* np.linspace(a, b, n)[i-1] for fractions a, b and n >= 1
LinspacePoint(a, b, n, i) ==
    IF n = 1 THEN a
    ELSE <<a[1] * b[2] * (n - 1) + (i - 1) * (b[1] * a[2] - a[1] * b[2]),
           a[2] * b[2] * (n - 1)>>

Linspace(a, b, n) == [i \in 1..n |-> LinspacePoint(a, b, n, i)]

\* the tables np.loadtxt reads before it meets a missing file: the first
\* i-1 when table i is the first one missing, all n when none is
LoadedPrefix(t, n) ==
    LET missing == {i \in 1..n : i \notin DOMAIN t}
        stop == IF missing = {} THEN n
                ELSE (CHOOSE i \in missing : \A j \in missing : i <= j) - 1
    IN [i \in 1..stop |-> t[i]]

\* set_powerspec (lines 190-206); table i stands for the file
\* "{write_powerspectrum}_{scale_factor:.4f}.txt" of the i-th scale factor
SetPowerspec(o, t) ==
    IF o.timesteps < 0 THEN [exc |-> "ValueError", obj |-> o]
    ELSE LET n == o.timesteps
             o1 == SetAttr(o, "_scale_factors",
                      [kind |-> "ndarray", val |-> Linspace(o.time_start, o.time_end, n)])
             got == LoadedPrefix(t, n)
         IN IF Len(got) < n
            THEN [exc |-> "OSError",
                  obj |-> SetAttr(SetAttr(o1, "_powerspecs", [kind |-> "list", val |-> got]),
                                  "_kk", [kind |-> "list", val |-> got])]
            ELSE [exc |-> "",
                  obj |-> SetAttr(SetAttr(o1, "_powerspecs", [kind |-> "ndarray", val |-> got]),
                                  "_kk", [kind |-> "ndarray", val |-> got])]

\* line 186
MS_SetPowerspec ==
    /\ pc = "ms_powerspec"
    /\ LET r == SetPowerspec(obj, tables) IN
        /\ obj' = r.obj
        /\ IF r.exc = ""
           THEN /\ events' = Append(events, "parsed")
                /\ pc' = "ms_return"
                /\ UNCHANGED <<outcome, exc>>
           ELSE /\ Raise(r.exc)
                /\ UNCHANGED events
    /\ UNCHANGED <<dirs, files, tables, args, pre, argv, launches, status, nCalls,
                   pklinPath, simGen, pklinDone, likVars>>

\* line 188
MS_Return ==
    /\ pc = "ms_return"
    /\ pc' = "idle"
    /\ outcome' = "returned"
    /\ events' = Append(events, "returned")
    /\ UNCHANGED <<obj, dirs, files, tables, args, exc, pre, argv, launches, status,
                   nCalls, pklinPath, simGen, pklinDone, likVars>>

(***************************************************************************)
(* bao_fs_ngc_z1_marg.__init__ : the three table loaders (lines 45-79).    *)
(* A data file is a sequence of line kinds; the text of its q-th line is   *)
(* LineText(kind, q, n): "g" a line of n+1 numeric fields, "c" the same    *)
(* followed by a '#', "s" a line of n-1 numeric fields, "x" a line whose   *)
(* first field is not numeric, "b" a blank line.  Field j of line q is the *)
(* number q+j-1, so every row tells which line it was read from.           *)
(***************************************************************************)
Nmax == 128
MaxExtra == 1    \* lines a covariance or measurements file has beyond the rows read

RECURSIVE Fields(_, _, _)
Fields(q, j, n) == IF j > n THEN <<>>
                   ELSE IntToStr(q + j - 1) \o (IF j < n THEN <<" ">> ELSE <<>>)
                        \o Fields(q, j + 1, n)

LineText(kind, q, n) ==
    CASE kind = "g" -> Fields(q, 1, n + 1)
      [] kind = "c" -> Fields(q, 1, n + 1) \o <<" ", "#">>
      [] kind = "s" -> Fields(q, 1, n - 1)
      [] kind = "x" -> <<"x", " ">> \o Fields(q, 2, n)
      [] kind = "b" -> <<>>

\* float(s) for the fields that occur: unsigned decimal integers convert,
\* anything else raises ValueError
IsFloat(s) == s # <<>> /\ \A i \in 1..Len(s) : \E d \in 1..10 : s[i] = Digit[d]
DigitValue(c) == (CHOOSE d \in 1..10 : Digit[d] = c) - 1
RECURSIVE StrToNat(_)
StrToNat(s) == IF s = <<>> THEN 0
               ELSE 10 * StrToNat(SubSeq(s, 1, Len(s) - 1)) + DigitValue(s[Len(s)])

\* line.find('#') != -1
HasHash(l) == \E i \in 1..Len(l) : l[i] = "#"

\* lines 49, 59, 74: the condition of the while loop
SkipLine(l) == HasHash(l)

\* the rows and the columns each loader reads (lines 47/51, 57/61-63, 72/76-78)
RowsOf(st, k) == CASE st = "cov" -> 2 * k + 2 [] st = "meas" -> k [] st = "win" -> Nmax
ColsOf(st, k) == CASE st = "cov" -> 2 * k + 2 [] st = "meas" -> 3 [] st = "win" -> 3

\* datafile.readline(): the next line, '' at the end of the file
Readline(f, pos, n) == IF pos < Len(f) THEN LineText(f[pos + 1], pos + 1, n) ELSE <<>>

\* np.zeros((r, c))
Zeros(r, c) == [i \in 1..r |-> [j \in 1..c |-> 0]]

\* a plausible slip: a missing or non-numeric field leaves the entry at zero
StoreRowLenient(tbl, i, l, n) ==
    LET f == Split(l) IN
    [exc |-> "",
     tbl |-> [tbl EXCEPT ![i] = [j \in 1..n |->
                IF j <= Len(f) /\ IsFloat(f[j]) THEN StrToNat(f[j]) ELSE tbl[i][j]]]]

\* lines 51-52, 61-63, 76-78: float(line.split()[j]) for j = 0..n-1 into
\* row i; the first field that is missing raises IndexError, the first that
\* is not a number ValueError, and the entries before it are already stored
StoreRow(tbl, i, l, n) ==
    LET f == Split(l)
        bad == {j \in 1..n : j > Len(f) \/ ~IsFloat(f[j])}
        stop == IF bad = {} THEN n + 1 ELSE CHOOSE j \in bad : \A m \in bad : j <= m
    IN [exc |-> IF bad = {} THEN ""
                ELSE IF stop > Len(f) THEN "IndexError" ELSE "ValueError",
        tbl |-> [tbl EXCEPT ![i] = [j \in 1..n |->
                   IF j < stop THEN StrToNat(f[j]) ELSE tbl[i][j]]]]

KsizeChoices == {1}

RECURSIVE SeqsUpTo(_, _)
SeqsUpTo(S, n) == IF n = 0 THEN {<<>>}
                  ELSE LET shorter == SeqsUpTo(S, n - 1) IN
                       shorter \cup {Append(q, x) : q \in {t \in shorter : Len(t) = n - 1}, x \in S}

WithKind(n, p, d) == [q \in 1..n |-> IF q = p THEN d ELSE "g"]

\* the files each loader is given
FilesFor(st, k) ==
    CASE st = "cov" -> SeqsUpTo({"g", "c", "s"}, RowsOf("cov", k) + MaxExtra)
      [] st = "meas" -> SeqsUpTo({"g", "c", "s", "x", "b"}, RowsOf("meas", k) + MaxExtra)
      [] st = "win" -> {WithKind(Nmax - 1, 1, "g"), WithKind(Nmax, 1, "g"),
                        WithKind(Nmax, 1, "c"), WithKind(Nmax, Nmax, "s"),
                        WithKind(Nmax + 1, 1, "c"), WithKind(Nmax + 1, Nmax, "c")}
      [] st = "none" -> {}

TableOf(st) == CASE st = "cov" -> cov [] st = "meas" -> meas [] st = "win" -> win
                 [] st = "none" -> <<>>
\* the loaders follow one another: covariance, measurements, window
NextStage(st) == CASE st = "none" -> "cov" [] st = "cov" -> "meas" [] st = "meas" -> "win"
                   [] st = "win" -> "none"

LikSimUnchanged == UNCHANGED simVars

\* Likelihood_prior.__init__ has set ksize; lines 37-43 allocate the arrays
LikBegin(k) ==
    /\ lpc = "new"
    /\ ksize' = k
    /\ meas' = Zeros(RowsOf("meas", k), 3)
    /\ cov' = Zeros(RowsOf("cov", k), ColsOf("cov", k))
    /\ lpc' = "open"
    /\ UNCHANGED <<stage, fh, fpos, reads, line, row, win, lexc, lkl, lklCalls>>
    /\ LikSimUnchanged

\* lines 46, 56, 67-71: the next data file is opened (the window arrays are
\* allocated just before theirs is)
LD_Open(f) ==
    /\ lpc = "open"
    /\ stage' = NextStage(stage)
    /\ fh' = f
    /\ fpos' = 0
    /\ reads' = 0
    /\ row' = 0
    /\ win' = IF stage = "meas" THEN Zeros(Nmax, 3) ELSE win
    /\ lpc' = "read"
    /\ UNCHANGED <<ksize, line, cov, meas, lexc, lkl, lklCalls>>
    /\ LikSimUnchanged

\* lines 48, 58, 73: line = datafile.readline()
LD_Read ==
    /\ lpc = "read"
    /\ line' = Readline(fh, fpos, ColsOf(stage, ksize))
    /\ fpos' = IF fpos < Len(fh) THEN fpos + 1 ELSE fpos
    /\ reads' = reads + 1
    /\ lpc' = "test"
    /\ UNCHANGED <<stage, ksize, fh, row, cov, meas, win, lexc, lkl, lklCalls>>
    /\ LikSimUnchanged

\* lines 49-50, 59-60, 74-75: one more line is read while the line holds a '#'
LD_Skip ==
    /\ lpc = "test"
    /\ SkipLine(line)
    /\ line' = Readline(fh, fpos, ColsOf(stage, ksize))
    /\ fpos' = IF fpos < Len(fh) THEN fpos + 1 ELSE fpos
    /\ reads' = reads + 1
    /\ UNCHANGED <<lpc, stage, ksize, fh, row, cov, meas, win, lexc, lkl, lklCalls>>
    /\ LikSimUnchanged

\* lines 51-53, 61-64, 76-79: the row is stored; after the last row the file
\* is closed and the next loader (or the rest of __init__) follows
LD_Store ==
    /\ lpc = "test"
    /\ ~SkipLine(line)
    /\ LET r == StoreRow(TableOf(stage), row + 1, line, ColsOf(stage, ksize))
           last == row + 1 = RowsOf(stage, ksize)
       IN
        /\ cov' = IF stage = "cov" THEN r.tbl ELSE cov
        /\ meas' = IF stage = "meas" THEN r.tbl ELSE meas
        /\ win' = IF stage = "win" THEN r.tbl ELSE win
        /\ lexc' = r.exc
        /\ IF r.exc # ""
           THEN /\ lpc' = "init_raised"
                /\ UNCHANGED row
           ELSE /\ row' = row + 1
                /\ lpc' = IF ~last THEN "read" ELSE IF stage = "win" THEN "ready" ELSE "open"
    /\ UNCHANGED <<stage, ksize, fh, fpos, reads, line, lkl, lklCalls>>
    /\ LikSimUnchanged

(***************************************************************************)
(* bao_fs_ngc_z1_marg.loglkl (lines 128-248), on the shapes of its arrays. *)
(* A shape is a sequence of dimensions; Bad is the shape of an expression  *)
(* numpy refuses.  The statements that can raise are listed in program     *)
(* order with what each needs; the first whose need is not met ends the    *)
(* call.                                                                   *)
(***************************************************************************)
Nmarg == 4
Bad == <<-1>>

\* the dimension i places from the right, 1 when the shape is shorter
DimFromRight(a, i) == IF i <= Len(a) THEN a[Len(a) - i + 1] ELSE 1

\* numpy broadcasting of two shapes
Broadcast(a, b) ==
    IF a = Bad \/ b = Bad THEN Bad
    ELSE LET n == IF Len(a) > Len(b) THEN Len(a) ELSE Len(b)
             fits == \A i \in 1..n :
                        \/ DimFromRight(a, i) = DimFromRight(b, i)
                        \/ DimFromRight(a, i) = 1
                        \/ DimFromRight(b, i) = 1
         IN IF ~fits THEN Bad
            ELSE [i \in 1..n |->
                    LET x == DimFromRight(a, n - i + 1)
                        y == DimFromRight(b, n - i + 1)
                    IN IF x = 1 THEN y ELSE x]

\* target[...] = value : the value must broadcast to the target's shape
CanAssign(target, value) == value # Bad /\ target # Bad /\ Broadcast(target, value) = target

\* np.vstack of m one-dimensional arrays of length n, transposed
VstackT(m, n) == <<n, m>>

\* a[:, newaxis] of a one-dimensional array
Column(a) == IF a = Bad THEN Bad ELSE <<a[1], 1>>

\* a[index array of length n] on the first axis
TakeRows(a, n) == IF a = Bad THEN Bad ELSE <<n>> \o Tail(a)

\* (a[newaxis, :, :] * j).sum(axis=1) for a of two and j of three dimensions
TimesSumAxis1(a, j) ==
    LET p == Broadcast(<<1>> \o a, j) IN
    IF p = Bad THEN Bad ELSE <<p[1], p[3]>>

\* the names loglkl can read: its parameters, the locals it assigns, and the
\* names the module imports or defines
LoglklNames ==
    {"self", "cosmo", "data", "h", "norm", "i_s", "a2", "Nmax", "k0", "z", "fz",
     "Pshotsig", "Pshotmean", "Nmarg", "theory0vec", "theory2vec", "all_theory",
     "kinloop1", "theory2", "theory0", "dtheory2_dPshot", "dtheory0_dPshot",
     "i_arr", "factor", "Pdiscrin0", "Pdiscrin2", "cm0", "cm2", "cmsym0",
     "cmsym2", "all_i", "f", "k0t1", "k0t2", "xi0", "xi2", "Xidiscrin0",
     "Xidiscrin2", "cmr0", "cmr2", "cmsymr0", "cmsymr2", "arr_i", "r0t1", "r0t2",
     "P0t", "P2t", "P0int", "P2int", "dPshot_stack", "marg_covMM",
     "invcov_margMM", "chi2", "x1", "loglkl",
     "os", "np", "Likelihood_prior", "fft", "ifft", "rfft", "irfft", "fftfreq",
     "exp", "log", "log10", "cos", "sin", "pi", "cosh", "sinh", "sqrt", "gamma",
     "erf", "interpolate", "quad", "integrate", "special", "bao_fs_ngc_z1_marg"}

\* lines 168-169: the arrays stacked into theory0vec and theory2vec
TheoryColumns == 2

\* the statements of loglkl that can raise, for ksize k and a get_pk_mult
\* result of ncomp components of length Nmax
LoglklStatements(k, ncomp) ==
    LET nf == Cardinality({i \in 0..Nmax : i + 2 - Nmax \div 2 < 1})
        etam == <<Nmax \div 2 + Nmax \div 2 + 1>>
        theoryvec == VstackT(TheoryColumns, Nmax)
        factor == Column(Broadcast(<<Nmax>>, <<Nmax>>))
        Pdiscrin == Broadcast(theoryvec, factor)
        cm == Pdiscrin
        cmsym == <<Nmax + 1, Nmarg + 1>>
        k0t1 == Column(<<nf>>)
        k0t2 == Column(<<Nmax + 1 - nf>>)
        low == Broadcast(k0t1, TakeRows(cm, nf))
        high == Broadcast(k0t2, TakeRows(cm, Nmax + 1 - nf))
        Jarr == <<Nmax, Nmax + 1, 1>>
        xi == TimesSumAxis1(cmsym, Jarr)
        W == <<Nmax, 1>>
        Xidiscrin == Broadcast(Broadcast(Broadcast(xi, W), Broadcast(xi, W)), <<Nmax, 1>>)
        cmr == Xidiscrin
        lowr == Broadcast(k0t1, TakeRows(cmr, nf))
        highr == Broadcast(k0t2, TakeRows(cmr, Nmax + 1 - nf))
        Pt == TimesSumAxis1(cmsym, Jarr)
        Pint == <<k, Nmarg + 1>>
        stack == <<k + k + 2>>
        covshape == <<2 * k + 2, 2 * k + 2>>
    IN << [at |-> 159, exc |-> "IndexError", ok |-> ncomp > 24],
          [at |-> 174, exc |-> "ValueError", ok |-> Pdiscrin # Bad],
          [at |-> 184, exc |-> "IndexError", ok |-> etam = <<Nmax + 1>>],
          [at |-> 186, exc |-> "ValueError", ok |-> CanAssign(<<nf>> \o Tail(cmsym), low)],
          [at |-> 188, exc |-> "ValueError",
           ok |-> CanAssign(<<Nmax + 1 - nf>> \o Tail(cmsym), high)],
          [at |-> 196, exc |-> "ValueError", ok |-> xi # Bad],
          [at |-> 199, exc |-> "ValueError", ok |-> Xidiscrin # Bad],
          [at |-> 212, exc |-> "ValueError", ok |-> CanAssign(<<nf>> \o Tail(cmsym), lowr)],
          [at |-> 214, exc |-> "ValueError",
           ok |-> CanAssign(<<Nmax + 1 - nf>> \o Tail(cmsym), highr)],
          [at |-> 222, exc |-> "ValueError", ok |-> Pt # Bad],
          [at |-> 225, exc |-> "IndexError", ok |-> Pt # Bad /\ Nmarg + 1 <= Pt[2]],
          [at |-> 229, exc |-> "IndexError", ok |-> 4 < Pint[2]],
          [at |-> 231, exc |-> "ValueError",
           ok |-> Broadcast(covshape, <<stack[1], stack[1]>>) # Bad],
          [at |-> 238, exc |-> "NameError",
           ok |-> {"alphapar", "alphaperp"} \subseteq LoglklNames],
          [at |-> 241, exc |-> "ValueError", ok |-> stack[1] = covshape[2]] >>

\* loglkl as a whole: the first statement that raises, or the return of line 248
LoglklResult(k, ncomp) ==
    LET st == LoglklStatements(k, ncomp)
        failing == {i \in 1..Len(st) : ~st[i].ok}
    IN IF failing = {} THEN [outcome |-> "returned", exc |-> "", at |-> 248]
       ELSE LET i == CHOOSE x \in failing : \A y \in failing : x <= y
            IN [outcome |-> "raised", exc |-> st[i].exc, at |-> st[i].at]

MaxLklCalls == 2
CompChoices == {25, 32}

\* one call of loglkl by the sampler, after __init__ has succeeded
Loglkl(ncomp) ==
    /\ lpc = "ready"
    /\ lklCalls < MaxLklCalls
    /\ lkl' = LoglklResult(ksize, ncomp)
    /\ lklCalls' = lklCalls + 1
    /\ UNCHANGED <<lpc, stage, ksize, fh, fpos, reads, line, row, cov, meas, win, lexc>>
    /\ LikSimUnchanged

NoLkl == [outcome |-> "none", exc |-> "", at |-> 0]

LikIdle ==
    /\ lpc = "new"
    /\ stage = "none"
    /\ ksize = 0
    /\ fh = <<>>
    /\ fpos = 0
    /\ reads = 0
    /\ line = <<>>
    /\ row = 0
    /\ cov = <<>>
    /\ meas = <<>>
    /\ win = <<>>
    /\ lexc = ""
    /\ lkl = NoLkl
    /\ lklCalls = 0

NoFiles == <<>>
NoPre == [files |-> NoFiles, obj |-> NoObj, tables |-> <<>>]

Init ==
    /\ pc = "new"
    /\ obj = NoObj
    /\ dirs \in InitDirChoices
    /\ files = NoFiles
    /\ tables = <<>>
    /\ args = NoArgs
    /\ outcome = "none"
    /\ exc = ""
    /\ events = <<>>
    /\ pre = NoPre
    /\ argv = <<>>
    /\ launches = 0
    /\ status = -1
    /\ nCalls = 0
    /\ pklinPath = <<>>
    /\ simGen = 0
    /\ pklinDone = 0
    /\ LikIdle

Next ==
    \/ \E a \in CtorInputs : Construct(a)
    \/ \E outfile \in OutfileChoices : MakePklin(outfile)
    \/ MS_Begin
    \/ MS_Pklin
    \/ MS_WriteParam
    \/ MS_Launch
    \/ \E st \in {0, 1}, wrote \in BOOLEAN : MS_ProcessExit(st, wrote)
    \/ MS_WriteMessage
    \/ MS_ToJson
    \/ MS_SetPowerspec
    \/ MS_Return

Spec == Init /\ [][Next]_vars

(***************************************************************************)
(* Properties of SimulationICs.                                            *)
(***************************************************************************)
InSim == pc \in {"ms_pklin", "ms_param", "ms_launch", "ms_running",
                 "ms_message", "ms_json", "ms_powerspec", "ms_return"}
Has(e) == \E i \in 1..Len(events) : events[i] = e
Pos(e) == CHOOSE i \in 1..Len(events) : events[i] = e
Count(e) == Cardinality({i \in 1..Len(events) : events[i] = e})
SameAt(f, g, p) ==
    /\ (p \in DOMAIN f) <=> (p \in DOMAIN g)
    /\ (p \in DOMAIN f) => f[p] = g[p]

\* the ranges as the claim lists them
RangesHold(a) ==
    /\ a.box < 20000
    /\ 1 < a.npart /\ a.npart < 16000
    /\ Lt(<<0, 1>>, a.omega0) /\ Le(a.omega0, <<1, 1>>)
    /\ Lt(<<0, 1>>, a.omegab) /\ Lt(a.omegab, <<1, 1>>)
    /\ Lt(<<1, 1>>, a.redshift) /\ Lt(a.redshift, <<1100, 1>>)
    /\ Le(<<0, 1>>, a.redend) /\ Lt(a.redend, <<1100, 1>>)
    /\ Lt(<<0, 1>>, a.hubble) /\ Lt(a.hubble, <<1, 1>>)
    /\ Lt(<<0, 1>>, a.scalar_amp) /\ Lt(a.scalar_amp, <<1, 10000000>>)
    /\ Lt(<<0, 1>>, a.ns) /\ Lt(a.ns, <<2, 1>>)

\* C1, as the claim states it: construction raises exactly when some checked
\* parameter is outside its range, and succeeds in every other case.
C1_RaisesIffOutOfRange ==
    pc # "new" => ((pc = "ctor_raised") <=> ~RangesHold(args))

\* C1, amended: construction raises AssertionError exactly when some checked
\* parameter is outside its range; with all nine in range it succeeds when
\* outdir exists or os.mkdir can create it (whatever seed, timesteps and
\* cores are) and raises os.mkdir's FileNotFoundError when outdir's parent
\* directory is missing.
C1_RangeChecksThenMkdir ==
    pc # "new" =>
        /\ (pc = "ctor_raised" /\ exc = "AssertionError") <=> ~RangesHold(args)
        /\ RangesHold(args) =>
            IF args.outdir \in dirs
            THEN pc # "ctor_raised" /\ DOMAIN obj # {}
            ELSE /\ pc = "ctor_raised"
                 /\ exc = "FileNotFoundError"
                 /\ ~ParentExists(args.outdir, dirs)

\* C1 witness: an instance constructed with unusual seed, timesteps and cores
C1_Witness ==
    /\ pc = "idle" /\ nCalls = 0
    /\ args.seed = -1 /\ args.timesteps = -1 /\ args.cores = 12

\* C10: a construction that fails a range check changes neither directories
\* nor files; a construction creates outdir only when every check passes and
\* outdir does not exist, and then creates nothing else.
C10_FailedCheckNoEffect ==
    [][(pc = "new" /\ pc' # "new") =>
        /\ files' = files
        /\ IF ~RangesHold(args') THEN dirs' = dirs
           ELSE \/ dirs' = dirs
                \/ /\ ~PathExists(args'.outdir, dirs, files)
                   /\ dirs' = dirs \cup {args'.outdir}
        /\ PathExists(args'.outdir, dirs, files) => dirs' = dirs]_vars

\* C10 witness: a range check failed while outdir did not exist
C10_Witness ==
    /\ pc = "ctor_raised" /\ exc = "AssertionError"
    /\ args.outdir \notin dirs
    /\ ParentExists(args.outdir, dirs)

\* C2: at most one process is launched per make_simulation call, exactly
\* one once the process has exited, and a non-zero exit status ends the
\* call by raising CalledProcessError.
C2_RaisesNoRetry ==
    /\ launches <= 1
    /\ Count("launched") = launches
    /\ status # -1 => launches = 1
    /\ status \notin {-1, 0} =>
        /\ pc = "idle"
        /\ outcome = "raised"
        /\ exc = "CalledProcessError"

\* C2 witness: a call ended by a non-zero exit status
C2_Witness ==
    /\ pc = "idle" /\ status = 1 /\ launches = 1 /\ outcome = "raised"

ParamPath == PathJoin(obj.outdir, obj.param_file)
JsonPath == PathJoin(obj.outdir, JsonName)
MessagePath == PathJoin(obj.outdir, MessageName)

\* C3, as the claim states it (its first half): every make_simulation call
\* whose process exited with status zero has, when it ends, saved a complete
\* JSON snapshot of the stored parameters in SimulationICs.json.
C3_SnapshotEveryCall ==
    (pc = "idle" /\ status = 0) =>
        /\ Has("json_saved")
        /\ JsonPath \in DOMAIN files
        /\ files[JsonPath].complete

\* C5: within one call the parameter file is written before the process is
\* launched, the process has exited before anything is parsed, each step
\* happens once, and the call returns only after the parse, with
\* scale_factors, kk and powerspecs set from the tables on disk.
C5_StepsInOrder ==
    /\ Has("launched") => Has("param_written") /\ Pos("param_written") < Pos("launched")
    /\ Has("exited") => Has("launched") /\ Pos("launched") < Pos("exited")
    /\ Has("parsed") => Has("exited") /\ Pos("exited") < Pos("parsed")
    /\ Has("returned") => Has("parsed") /\ Pos("parsed") < Pos("returned")
    /\ \A e \in {"param_written", "launched", "exited", "parsed", "returned"} : Count(e) <= 1
    /\ pc = "ms_running" => ~Has("exited") /\ ~Has("parsed")
    /\ pc \in {"ms_message", "ms_json", "ms_powerspec", "ms_return"} =>
          Has("exited") /\ status = 0
    /\ Has("parsed") => status = 0
    /\ (Has("returned") /\ pc = "idle") =>
        /\ ArrayAttrs \subseteq DOMAIN obj
        /\ \A k \in ArrayAttrs : obj[k].kind = "ndarray" /\ Len(obj[k].val) = obj.timesteps
        /\ obj["_kk"].val = [i \in 1..obj.timesteps |-> tables[i]]
        /\ obj["_powerspecs"].val = obj["_kk"].val

\* C5 witness: a call that returned
C5_Witness == pc = "idle" /\ Has("returned") /\ obj["_kk"].val # <<>>

\* C6, as the claim states it: the launcher gets the five arguments
\* mpirun, -n, cores, fastpm_bin and the path of the parameter file written.
C6_FiveArguments ==
    launches = 1 =>
        /\ argv = << <<"m", "p", "i", "r", "u", "n">>, <<"-", "n">>,
                     IntToStr(obj.cores), obj.fastpm_bin, ParamPath >>
        /\ ParamPath \in DOMAIN files

\* C8: the step on which a non-zero exit status ends the call leaves
\* message.out and SimulationICs.json as they were before the call, leaves
\* the array attributes as they were, and besides these leaves every file
\* but the parameter file and the linear file, and every attribute but
\* linear_file and write_powerspectrum, as before the call.
C8_FailedRunFrame ==
    [][(pc = "ms_running" /\ status' \notin {-1, 0}) =>
        /\ pc' = "idle" /\ outcome' = "raised"
        /\ SameAt(files', pre.files, MessagePath)
        /\ SameAt(files', pre.files, JsonPath)
        /\ \A k \in ArrayAttrs : SameAt(obj', pre.obj, k)
        /\ \A p \in (DOMAIN files' \cup DOMAIN pre.files) \ {ParamPath, obj.linear_file} :
              SameAt(files', pre.files, p)
        /\ \A k \in (DOMAIN obj' \cup DOMAIN pre.obj) \ {"linear_file", "write_powerspectrum"} :
              SameAt(obj', pre.obj, k)
        /\ dirs' = dirs]_vars

\* C8 witness: a call failed after an earlier call had written message.out,
\* SimulationICs.json and the arrays
C8_Witness ==
    /\ pc = "idle" /\ exc = "CalledProcessError"
    /\ MessagePath \in DOMAIN files /\ JsonPath \in DOMAIN files
    /\ "_kk" \in DOMAIN obj

\* C9: make_simulation generates the linear file at most once per instance
\* and only when no make_pklin was performed before, and the
\* read_powerspectrum it writes into the parameter file is the path set by
\* the most recent make_pklin.
C9_LinearFileOnce ==
    /\ simGen <= 1
    /\ (InSim /\ Has("pklin")) => pklinDone = 1
    /\ (InSim /\ pc # "ms_pklin") => pklinDone >= 1
    /\ (InSim /\ Has("param_written")) =>
          files[ParamPath].data.read_powerspectrum = pklinPath

\* C9 witness: the parameter file names the file of a direct make_pklin
\* that came after make_simulation had generated the default one
C9_Witness ==
    /\ InSim /\ Has("param_written")
    /\ simGen = 1 /\ ~Has("pklin")
    /\ pklinPath # PathJoin(obj.outdir, LinearDefault)

(***************************************************************************)
(* The likelihood plugin on its own.                                       *)
(***************************************************************************)
InitLik ==
    /\ pc = "new"
    /\ obj = NoObj
    /\ dirs = {}
    /\ files = NoFiles
    /\ tables = <<>>
    /\ args = NoArgs
    /\ outcome = "none"
    /\ exc = ""
    /\ events = <<>>
    /\ pre = NoPre
    /\ argv = <<>>
    /\ launches = 0
    /\ status = -1
    /\ nCalls = 0
    /\ pklinPath = <<>>
    /\ simGen = 0
    /\ pklinDone = 0
    /\ LikIdle

NextLik ==
    \/ \E k \in KsizeChoices : LikBegin(k)
    \/ \E f \in FilesFor(NextStage(stage), ksize) : LD_Open(f)
    \/ LD_Read
    \/ LD_Skip
    \/ LD_Store
    \/ \E ncomp \in CompChoices : Loglkl(ncomp)

SpecLik == InitLik /\ [][NextLik]_vars /\ WF_vars(NextLik)

(***************************************************************************)
(* Properties of the likelihood plugin.                                    *)
(***************************************************************************)
\* the numbers of the lines of f that are not of kind "c", the only kind
\* that holds a '#'
DataLines(f) == SelectSeq([q \in 1..Len(f) |-> q], LAMBDA q : f[q] # "c")

\* the rows a loader must find in file f, field j of line q being q+j-1
DataRows(f, n) ==
    LET at == DataLines(f) IN [i \in 1..Len(at) |-> [j \in 1..n |-> at[i] + j - 1]]

\* the kinds of the lines of f that hold no '#'
DataKinds(f) == SelectSeq(f, LAMBDA x : x # "c")

LoaderInvariant ==
    stage # "none" =>
        LET n == ColsOf(stage, ksize)
            need == RowsOf(stage, ksize)
            tbl == TableOf(stage)
            want == DataRows(fh, n)
            kinds == DataKinds(fh)
        IN /\ reads <= Len(fh) + 1
           /\ row <= need /\ row <= Len(want)
           /\ \A i \in 1..row : tbl[i] = want[i] /\ kinds[i] = "g"
           /\ \A i \in (row + 2)..need : tbl[i] = [j \in 1..n |-> 0]
           /\ lpc \in {"open", "ready"} => row = need
           /\ lpc = "init_raised" <=> lexc # ""
           /\ lpc = "init_raised" =>
                \/ lexc = "IndexError" /\ row = Len(kinds) /\ fpos = Len(fh)
                \/ lexc = "IndexError" /\ row < Len(kinds) /\ kinds[row + 1] \in {"s", "b"}
                \/ lexc = "ValueError" /\ row < Len(kinds) /\ kinds[row + 1] = "x"

\* what a loader can still do on its file: every readline and every stored
\* row takes one away, and nothing is left once the loader has ended
LoaderRank ==
    IF lpc \in {"read", "test"}
    THEN 1 + (Len(fh) + 1 - reads) + (RowsOf(stage, ksize) - row)
    ELSE 0

\* C7: each loader comes to an end on every finite file (it reads at most
\* one line more than the file holds, and each of its steps brings it
\* nearer to its end); row i is the i-th line without '#'; __init__ raises
\* when the file ends before the last row or a row is short or not numeric,
\* and finishes a table only with every row stored.
C7_LoadersRaiseOnMalformed ==
    /\ []LoaderInvariant
    /\ [][(lpc = "read" \/ lpc = "test") => (LoaderRank' < LoaderRank /\ LoaderRank' >= 0)]_vars

\* C7 witness: the window file ended one row early, after a line with '#'
\* had been skipped
C7_Witness ==
    /\ lpc = "init_raised" /\ stage = "win" /\ lexc = "IndexError"
    /\ row = Nmax - 1 /\ fpos = Len(fh) /\ fh[1] = "c" /\ line = <<>>

\* C4, as the claim states it: a loglkl call on loaded data with well-formed
\* callback values returns.
C4_LoglklReturns == lklCalls > 0 => lkl.outcome = "returned"

====
